---- MODULE Spec2Model ----
(***************************************************************************)
(* The record store of workorders/db.py: one SQLite table work_orders and  *)
(* the functions that insert, list, update, close and delete its rows.     *)
(* Every function runs one SQL statement and commits, so each is one       *)
(* action.  Time is the wall clock read by utc_now_iso; one unit of the    *)
(* model's clock is one day, and calls made within the same unit read the  *)
(* same timestamp (as calls within one second do in the program).          *)
(***************************************************************************)
EXTENDS Integers, Sequences, FiniteSets, TLC

\* ---------------------------------------------------------------- bounds
\* Number of rows ever inserted (AUTOINCREMENT ids 1..MaxRows).
MaxRows == 2
\* Largest clock value.
MaxTime == 1
\* Largest retention period passed to delete_closed_older_than.
MaxDays == 1
\* Largest instant of a closed_at found in a datastore written earlier.
MaxAge == 2

\* ---------------------------------------------------------------- values
\* Python None / an argument that was not passed.
None == "None"
\* SQL NULL in a TEXT column that holds a plain string.
NULL == "NULL"

\* CHECK (priority IN ('low', 'med', 'high'))
PriorityEnum == {"low", "med", "high"}
\* CHECK (status IN ('open', 'closed'))
StatusEnum == {"open", "closed"}

\* The arguments the calls are made with.  "urgent" is a priority outside the
\* enum; an argument of None is one the caller did not pass.
Machines == {"KMT-102", "KMT-200"}
AddInputs ==
    { <<"KMT-102", "leak", "med", None, None>>,
      <<"KMT-200", "jam", "high", "Alex", "n1">>,
      <<"KMT-102", "leak", "urgent", "Alex", None>> }
UpdateInputs ==
    { <<None, None, None, None>>,
      <<"jam", None, None, None>>,
      <<"leak", "med", None, None>>,
      <<None, None, "Alex", "n1">>,
      <<None, "urgent", None, "n1">> }
StatusInputs == {None, "open", "closed"}
\* What the notifier does in a call of add_work_order:
\*   "none"       neither import finds a module (ModuleNotFoundError, also
\*                raised by notify.py's own import of twilio): send_sms = None
\*   "load_error" the module body of notify.py raises another exception;
\*                its line 9 builds the twilio Client at import time from
\*                settings that may be unset
\*   "skipped"    send_sms returns at once, a setting being unset
\*   "sent"       send_sms returns after sending
\*   "failed"     send_sms raises
SmsOutcomes == {"none", "load_error", "skipped", "sent", "failed"}
IdInputs == 1..(MaxRows + 1)

\* A timestamp column is TEXT.  A stored text is modelled by its kind
\* ("null" for SQL NULL, "iso" for YYYY-MM-DDTHH:MM:SS followed by the suffix
\* tz, "junk" for any text SQLite's date functions cannot parse), the instant
\* t it denotes and its suffix.
NullText == [kind |-> "null", t |-> 0, tz |-> ""]
JunkText == [kind |-> "junk", t |-> 0, tz |-> ""]
IsoText(n, suffix) == [kind |-> "iso", t |-> n, tz |-> suffix]

\* datetime.now(timezone.utc).replace(microsecond=0).isoformat()
\*     .replace("+00:00", "Z")
utc_now_iso(clk) == IsoText(clk, "Z")

VARIABLES
    rows,   \* table work_orders: id -> row, for the ids stored
    seq,    \* sqlite_sequence.seq of work_orders: largest id ever assigned
    clock,  \* the wall clock
    last,   \* the last call: its name, arguments and outcome
    cols,   \* the columns of table work_orders (PRAGMA table_info)
    users,  \* table users: the rows in the order of their ids
    conn,   \* each caller's connection: the call it is in, and its outcome
    gate,   \* st.session_state of the login gate, and the time
    pw      \* one evaluation of _hash_password and _verify_password

\* The state of the record store, and the state outside it.
storeVars == <<rows, seq, clock, last>>
otherVars == <<cols, users, conn, gate, pw>>
vars == <<rows, seq, clock, last, cols, users, conn, gate, pw>>

\* The columns of CREATE TABLE work_orders, and those migrate_db adds.
AllCols ==
    {"id", "machine_id", "issue", "priority", "status", "created_at",
     "closed_at", "assigned_to", "notes", "updated_at"}
AddedCols == {"assigned_to", "notes", "updated_at"}

\* The record of a call.  ret is the returned integer (an id or a row count),
\* out the returned rows, exc the exception that left the call ("" if none).
Call(op) ==
    [op |-> op, id |-> 0, machine_id |-> None, issue |-> None,
     priority |-> None, assigned_to |-> None, notes |-> None,
     status |-> None, days |-> 0, sms |-> "none",
     ret |-> 0, out |-> <<>>, exc |-> ""]

Max(S) == CHOOSE x \in S : \A y \in S : y <= x

\* A row as a SELECT returns it: the columns of the table and its id.
RowOf(rs, i) ==
    [id |-> i, machine_id |-> rs[i].machine_id, issue |-> rs[i].issue,
     priority |-> rs[i].priority, status |-> rs[i].status,
     created_at |-> rs[i].created_at, closed_at |-> rs[i].closed_at,
     assigned_to |-> rs[i].assigned_to, notes |-> rs[i].notes,
     updated_at |-> rs[i].updated_at]

\* The rows of rs with the ids in D removed.
Without(rs, D) == [i \in (DOMAIN rs) \ D |-> rs[i]]

\* ------------------------------------------------------------ add_work_order
\* Mutant of CheckOk: the table has no CHECK on priority.
CheckOk_NoPriorityCheck(r) ==
    /\ r.machine_id # NULL
    /\ r.issue # NULL
    /\ r.status \in StatusEnum

\* The table's CHECK and NOT NULL constraints on a row.
CheckOk(r) ==
    /\ r.machine_id # NULL
    /\ r.issue # NULL
    /\ r.priority \in PriorityEnum
    /\ r.status \in StatusEnum

\* A Python argument bound as an SQL parameter: None becomes NULL.
Bind(v) == IF v = None THEN NULL ELSE v

\* Mutant of NextRowid: INTEGER PRIMARY KEY without AUTOINCREMENT, one more
\* than the largest id stored.
NextRowid_NoAutoincrement(rs, s) == Max({0} \cup DOMAIN rs) + 1

\* INTEGER PRIMARY KEY AUTOINCREMENT: one more than the largest id ever used.
NextRowid(rs, s) == Max({s} \cup DOMAIN rs) + 1

\* Mutant of NewRow: updated_at is left NULL on insert.
NewRow_NoUpdatedAt(machine_id, issue, priority, assigned_to, notes, created_at) ==
    [machine_id |-> Bind(machine_id), issue |-> Bind(issue),
     priority |-> Bind(priority), status |-> "open",
     created_at |-> created_at, closed_at |-> NullText,
     assigned_to |-> Bind(assigned_to), notes |-> Bind(notes),
     updated_at |-> NullText]

\* VALUES (?, ?, ?, 'open', ?, NULL, ?, ?, ?)
NewRow(machine_id, issue, priority, assigned_to, notes, created_at) ==
    [machine_id |-> Bind(machine_id), issue |-> Bind(issue),
     priority |-> Bind(priority), status |-> "open",
     created_at |-> created_at, closed_at |-> NullText,
     assigned_to |-> Bind(assigned_to), notes |-> Bind(notes),
     updated_at |-> created_at]

InsertRow(rs, s, r) == rs @@ (NextRowid(rs, s) :> r)

AddWorkOrder(machine_id, issue, priority, assigned_to, notes, sms) ==
    /\ seq < MaxRows
    /\ LET created_at == utc_now_iso(clock)
           r == NewRow(machine_id, issue, priority, assigned_to, notes,
                       created_at)
           c == [Call("add") EXCEPT !.machine_id = machine_id,
                    !.issue = issue, !.priority = priority,
                    !.assigned_to = assigned_to, !.notes = notes]
       IN  IF sms = "load_error"
           THEN \* "except ModuleNotFoundError" lets it through: the call
                \* ends before the INSERT
                /\ UNCHANGED <<rows, seq>>
                /\ last' = [c EXCEPT !.exc = "NotifierError", !.sms = sms]
           ELSE IF CheckOk(r)
           THEN \* INSERT, commit, then send_sms inside try/except Exception
                /\ rows' = InsertRow(rows, seq, r)
                /\ seq' = NextRowid(rows, seq)
                /\ last' = [c EXCEPT !.ret = NextRowid(rows, seq),
                                     !.sms = sms]
           ELSE /\ UNCHANGED <<rows, seq>>
                /\ last' = [c EXCEPT !.exc = "IntegrityError"]
    /\ UNCHANGED clock

\* ---------------------------------------------------------- close_work_order
\* Mutant of CloseMatches: WHERE id = ? (the status is not tested).
CloseMatches_AnyStatus(rs, id) == {i \in DOMAIN rs : i = id}

\* WHERE id = ? AND status = 'open'
CloseMatches(rs, id) == {i \in DOMAIN rs : i = id /\ rs[i].status = "open"}

\* Mutant of CloseRows: SET status = 'closed', updated_at = ?
CloseRows_NoClosedAt(rs, id, closed_at) ==
    [i \in DOMAIN rs |->
        IF i \in CloseMatches(rs, id)
        THEN [rs[i] EXCEPT !.status = "closed", !.updated_at = closed_at]
        ELSE rs[i]]

\* Mutant of CloseRows: SET status = 'closed', closed_at = ?
CloseRows_NoUpdatedAt(rs, id, closed_at) ==
    [i \in DOMAIN rs |->
        IF i \in CloseMatches(rs, id)
        THEN [rs[i] EXCEPT !.status = "closed", !.closed_at = closed_at]
        ELSE rs[i]]

\* SET status = 'closed', closed_at = ?, updated_at = ?
CloseRows(rs, id, closed_at) ==
    [i \in DOMAIN rs |->
        IF i \in CloseMatches(rs, id)
        THEN [rs[i] EXCEPT !.status = "closed", !.closed_at = closed_at,
                           !.updated_at = closed_at]
        ELSE rs[i]]

CloseWorkOrder(id) ==
    /\ rows' = CloseRows(rows, id, utc_now_iso(clock))
    /\ last' = [Call("close") EXCEPT !.id = id,
                    !.ret = Cardinality(CloseMatches(rows, id))]
    /\ UNCHANGED <<seq, clock>>

\* --------------------------------------------------------- update_work_order
\* "if not fields: return 0": no argument other than the id was passed.
NoFields(issue, priority, assigned_to, notes) ==
    /\ issue = None
    /\ priority = None
    /\ assigned_to = None
    /\ notes = None

\* Mutant of SetFields: updated_at is written only when a value changes.
SetFields_BumpIfChanged(r, issue, priority, assigned_to, notes, updated_at) ==
    LET w == [r EXCEPT
                !.issue = IF issue # None THEN issue ELSE @,
                !.priority = IF priority # None THEN priority ELSE @,
                !.assigned_to = IF assigned_to # None THEN assigned_to ELSE @,
                !.notes = IF notes # None THEN notes ELSE @]
    IN  IF w = r THEN r ELSE [w EXCEPT !.updated_at = updated_at]

\* Mutant of SetFields: an argument that was not passed is written as NULL.
SetFields_ClobberUnsupplied(r, issue, priority, assigned_to, notes, updated_at) ==
    [r EXCEPT !.issue = IF issue # None THEN issue ELSE @,
              !.priority = IF priority # None THEN priority ELSE @,
              !.assigned_to = Bind(assigned_to),
              !.notes = Bind(notes),
              !.updated_at = updated_at]

\* Mutant of SetFields: the statement also writes closed_at.
SetFields_TouchClosedAt(r, issue, priority, assigned_to, notes, updated_at) ==
    [r EXCEPT !.issue = IF issue # None THEN issue ELSE @,
              !.priority = IF priority # None THEN priority ELSE @,
              !.assigned_to = IF assigned_to # None THEN assigned_to ELSE @,
              !.notes = IF notes # None THEN notes ELSE @,
              !.closed_at = updated_at,
              !.updated_at = updated_at]

\* Mutant of SetFields: an empty string passed for assigned_to or notes is
\* stored as NULL.
SetFields_EmptyAsNull(r, issue, priority, assigned_to, notes, updated_at) ==
    [r EXCEPT !.issue = IF issue # None THEN issue ELSE @,
              !.priority = IF priority # None THEN priority ELSE @,
              !.assigned_to = IF assigned_to = "" THEN NULL
                              ELSE IF assigned_to # None THEN assigned_to ELSE @,
              !.notes = IF notes = "" THEN NULL
                        ELSE IF notes # None THEN notes ELSE @,
              !.updated_at = updated_at]

\* SET <the fields passed>, updated_at = ?
SetFields(r, issue, priority, assigned_to, notes, updated_at) ==
    [r EXCEPT !.issue = IF issue # None THEN issue ELSE @,
              !.priority = IF priority # None THEN priority ELSE @,
              !.assigned_to = IF assigned_to # None THEN assigned_to ELSE @,
              !.notes = IF notes # None THEN notes ELSE @,
              !.updated_at = updated_at]

\* WHERE id = ?
UpdateMatches(rs, id) == {i \in DOMAIN rs : i = id}

UpdateRows(rs, id, issue, priority, assigned_to, notes, updated_at) ==
    [i \in DOMAIN rs |->
        IF i \in UpdateMatches(rs, id)
        THEN SetFields(rs[i], issue, priority, assigned_to, notes, updated_at)
        ELSE rs[i]]

\* The statement fails when a row it writes violates a constraint of the
\* table; a statement that matches no row writes none.
UpdateViolates(rs, id, issue, priority, assigned_to, notes, updated_at) ==
    \E i \in UpdateMatches(rs, id) :
        ~CheckOk(SetFields(rs[i], issue, priority, assigned_to, notes,
                           updated_at))

\* Mutant of UpdateResult: the rejected statement keeps what it wrote to the
\* columns other than priority.
UpdateResult_Partial(rs, id, issue, priority, assigned_to, notes, updated_at) ==
    IF UpdateViolates(rs, id, issue, priority, assigned_to, notes, updated_at)
    THEN UpdateRows(rs, id, issue, None, assigned_to, notes, updated_at)
    ELSE UpdateRows(rs, id, issue, priority, assigned_to, notes, updated_at)

\* The table after conn.execute(UPDATE ...): a failed statement is undone as
\* a whole and raises before conn.commit().
UpdateResult(rs, id, issue, priority, assigned_to, notes, updated_at) ==
    IF UpdateViolates(rs, id, issue, priority, assigned_to, notes, updated_at)
    THEN rs
    ELSE UpdateRows(rs, id, issue, priority, assigned_to, notes, updated_at)

UpdateWorkOrder(id, issue, priority, assigned_to, notes) ==
    /\ LET updated_at == utc_now_iso(clock)
           c == [Call("update") EXCEPT !.id = id, !.issue = issue,
                    !.priority = priority, !.assigned_to = assigned_to,
                    !.notes = notes]
       IN  IF NoFields(issue, priority, assigned_to, notes)
           THEN /\ rows' = rows
                /\ last' = c
           ELSE /\ rows' = UpdateResult(rows, id, issue, priority,
                                        assigned_to, notes, updated_at)
                /\ last' =
                     IF UpdateViolates(rows, id, issue, priority, assigned_to,
                                       notes, updated_at)
                     THEN [c EXCEPT !.exc = "IntegrityError"]
                     ELSE [c EXCEPT
                             !.ret = Cardinality(UpdateMatches(rows, id))]
    /\ UNCHANGED <<seq, clock>>

\* -------------------------------- list_work_orders, list_work_orders_by_machine
\* "if status:" is Python truthiness: None and the empty string are false.
Truthy(v) == v # None /\ v # ""

Min(S) == CHOOSE x \in S : \A y \in S : x <= y

\* Mutant of OrderByIdDesc: ORDER BY id (ascending).
RECURSIVE OrderByIdAsc(_, _)
OrderByIdAsc(rs, S) ==
    IF S = {} THEN <<>>
    ELSE <<RowOf(rs, Min(S))>> \o OrderByIdAsc(rs, S \ {Min(S)})

\* ORDER BY id DESC over the rows with ids in S.
RECURSIVE OrderByIdDesc(_, _)
OrderByIdDesc(rs, S) ==
    IF S = {} THEN <<>>
    ELSE <<RowOf(rs, Max(S))>> \o OrderByIdDesc(rs, S \ {Max(S)})

\* WHERE status = ?, or no WHERE clause
ListMatches(rs, status) ==
    IF Truthy(status)
    THEN {i \in DOMAIN rs : rs[i].status = status}
    ELSE DOMAIN rs

\* WHERE machine_id = ? AND status = ?, or WHERE machine_id = ?
ListByMachineMatches(rs, machine_id, status) ==
    IF Truthy(status)
    THEN {i \in DOMAIN rs :
            rs[i].machine_id = machine_id /\ rs[i].status = status}
    ELSE {i \in DOMAIN rs : rs[i].machine_id = machine_id}

ListWorkOrders(status) ==
    /\ last' = [Call("list") EXCEPT !.status = status,
                    !.out = OrderByIdDesc(rows, ListMatches(rows, status))]
    /\ UNCHANGED <<rows, seq, clock>>

ListWorkOrdersByMachine(machine_id, status) ==
    /\ last' = [Call("list_by_machine") EXCEPT
                    !.machine_id = machine_id, !.status = status,
                    !.out = OrderByIdDesc(rows,
                               ListByMachineMatches(rows, machine_id, status))]
    /\ UNCHANGED <<rows, seq, clock>>

\* ------------------------------------------------------ get_work_order_by_id
\* SELECT ... WHERE id = ?; fetchone(): the row, or nothing
SelectById(rs, id) == OrderByIdDesc(rs, {i \in DOMAIN rs : i = id})

GetWorkOrderById(id) ==
    /\ last' = [Call("get") EXCEPT !.id = id, !.out = SelectById(rows, id)]
    /\ UNCHANGED <<rows, seq, clock>>

\* ------------------------------------------------------------------- deletes
\* DELETE FROM work_orders;  (sqlite_sequence keeps the largest id)
DeleteAllWorkOrders ==
    /\ rows' = Without(rows, DOMAIN rows)
    /\ last' = [Call("delete_all") EXCEPT !.ret = Cardinality(DOMAIN rows)]
    /\ UNCHANGED <<seq, clock>>

\* Mutant of MachineMatches: the WHERE clause is missing.
MachineMatches_All(rs, machine_id) == DOMAIN rs

\* WHERE machine_id = ?
MachineMatches(rs, machine_id) ==
    {i \in DOMAIN rs : rs[i].machine_id = machine_id}

DeleteWorkOrdersByMachine(machine_id) ==
    /\ rows' = Without(rows, MachineMatches(rows, machine_id))
    /\ last' = [Call("delete_by_machine") EXCEPT !.machine_id = machine_id,
                    !.ret = Cardinality(MachineMatches(rows, machine_id))]
    /\ UNCHANGED <<seq, clock>>

\* SQL replace(closed_at, 'Z', '+00:00'); NULL and texts without a Z are
\* returned as they are.
SqlReplaceZ(x) ==
    IF x.kind = "iso" /\ x.tz = "Z" THEN IsoText(x.t, "+00:00") ELSE x

\* SQL datetime(text): the instant the text denotes, as a set that is empty
\* for NULL (the argument is NULL or is not a time string).  A time string may
\* end in nothing, in Z or in an offset [+-]HH:MM.
SqlDatetime(x) ==
    IF x.kind = "iso" /\ x.tz \in {"", "Z", "+00:00"} THEN {x.t} ELSE {}

\* SQL datetime('now', '-<days> days'), the modifier built by
\* f"-{int(days)} days": NULL when the modifier is not valid ("--1 days").
SqlDatetimeNowMinus(clk, days) ==
    IF days >= 0 THEN {clk - days} ELSE {}

\* Mutant of OldMatches: <= in place of <.
OldMatches_NonStrict(rs, days, clk) ==
    {i \in DOMAIN rs :
        /\ rs[i].status = "closed"
        /\ rs[i].closed_at.kind # "null"
        /\ \E a \in SqlDatetime(SqlReplaceZ(rs[i].closed_at)) :
             \E b \in SqlDatetimeNowMinus(clk, days) : a <= b}

\* WHERE status = 'closed' AND closed_at IS NOT NULL
\*   AND datetime(replace(closed_at, 'Z', '+00:00')) < datetime('now', ?)
\* A comparison with NULL is not true.
OldMatches(rs, days, clk) ==
    {i \in DOMAIN rs :
        /\ rs[i].status = "closed"
        /\ rs[i].closed_at.kind # "null"
        /\ \E a \in SqlDatetime(SqlReplaceZ(rs[i].closed_at)) :
             \E b \in SqlDatetimeNowMinus(clk, days) : a < b}

DeleteClosedOlderThan(days) ==
    /\ rows' = Without(rows, OldMatches(rows, days, clock))
    /\ last' = [Call("delete_old") EXCEPT !.days = days,
                    !.ret = Cardinality(OldMatches(rows, days, clock))]
    /\ UNCHANGED <<seq, clock>>

\* --------------------------------------------------------------------- clock
\* Time passes between calls.
Tick ==
    /\ clock < MaxTime
    /\ clock' = clock + 1
    /\ last' = Call("tick")
    /\ UNCHANGED <<rows, seq>>

\* ------------------------------------------------------------ specifications
\* init_db on a new file: the table exists and is empty.
\* What the variables outside the record store hold while the
\* specification at hand does not use them.
ColsIdle == cols = AllCols
AuthIdle == users = <<>> /\ conn = <<>>
GateIdle == gate = <<>>
HashIdle == pw = <<>>

OthersIdle == ColsIdle /\ AuthIdle /\ GateIdle /\ HashIdle

Init ==
    /\ rows = [i \in {} |-> 0]
    /\ seq = 0
    /\ clock = 0
    /\ last = Call("init")
    /\ OthersIdle

Next ==
    \/ /\ \E a \in AddInputs, s \in SmsOutcomes :
            AddWorkOrder(a[1], a[2], a[3], a[4], a[5], s)
       /\ UNCHANGED otherVars
    \/ /\ \E id \in IdInputs : CloseWorkOrder(id)
       /\ UNCHANGED otherVars
    \/ /\ \E id \in IdInputs, u \in UpdateInputs :
            UpdateWorkOrder(id, u[1], u[2], u[3], u[4])
       /\ UNCHANGED otherVars
    \/ /\ \E s \in StatusInputs : ListWorkOrders(s)
       /\ UNCHANGED otherVars
    \/ /\ \E m \in Machines, s \in StatusInputs :
            ListWorkOrdersByMachine(m, s)
       /\ UNCHANGED otherVars
    \/ /\ \E id \in IdInputs : GetWorkOrderById(id)
       /\ UNCHANGED otherVars
    \/ /\ DeleteAllWorkOrders
       /\ UNCHANGED otherVars
    \/ /\ \E m \in Machines : DeleteWorkOrdersByMachine(m)
       /\ UNCHANGED otherVars
    \/ /\ \E d \in 0..MaxDays : DeleteClosedOlderThan(d)
       /\ UNCHANGED otherVars
    \/ /\ Tick
       /\ UNCHANGED otherVars

Spec == Init /\ [][Next]_vars

\* A datastore written earlier and opened again (get_connection, init_db): the
\* table's columns hold whatever was stored, within the table's constraints.
\* closed_at is TEXT with no constraint, as the direct UPDATE of the retention
\* test writes it: NULL, a time string with or without a suffix, or a text
\* that is no time string, on an open or a closed row.
LegacyClosedAt ==
    {NullText, JunkText} \cup
    {IsoText(t, z) : t \in 0..MaxAge, z \in {"Z", "", "+00:00"}}

LegacyRow(status, closed_at) ==
    [machine_id |-> "KMT-102", issue |-> "leak", priority |-> "med",
     status |-> status, created_at |-> IsoText(0, "Z"),
     closed_at |-> closed_at, assigned_to |-> NULL, notes |-> NULL,
     updated_at |-> IsoText(0, "Z")]

LegacyRows == {LegacyRow(s, c) : s \in StatusEnum, c \in LegacyClosedAt}

InitRetention ==
    /\ rows \in [1..MaxRows -> LegacyRows]
    /\ seq = MaxRows
    /\ clock = MaxAge
    /\ last = Call("init")
    /\ OthersIdle

NextRetention ==
    \/ /\ \E id \in IdInputs : CloseWorkOrder(id)
       /\ UNCHANGED otherVars
    \/ /\ \E d \in 0..MaxDays : DeleteClosedOlderThan(d)
       /\ UNCHANGED otherVars

SpecRetention == InitRetention /\ [][NextRetention]_vars

\* ------------------------------------------------------------ migration
\* What a row holds in a column its table does not have.
NoColumn == "NOCOLUMN"
NoColumnText == [kind |-> "nocolumn", t |-> 0, tz |-> ""]

SetCol(r, c, v) ==
    CASE c = "assigned_to" -> [r EXCEPT !.assigned_to = v]
      [] c = "notes" -> [r EXCEPT !.notes = v]
      [] c = "updated_at" -> [r EXCEPT !.updated_at = v]

NullOf(c) == IF c = "updated_at" THEN NullText ELSE NULL

\* ALTER TABLE work_orders ADD COLUMN c TEXT: the new column is NULL in every
\* row; SQLite refuses a column name the table already has. A statement after
\* one that raised is not run.
AlterAddColumn(db, c) ==
    IF db.exc # "" THEN db
    ELSE IF c \in db.cols THEN [db EXCEPT !.exc = "OperationalError"]
    ELSE [rows |-> [i \in DOMAIN db.rows |-> SetCol(db.rows[i], c, NullOf(c))],
          cols |-> db.cols \cup {c},
          exc |-> ""]

\* Mutant of NeedsColumn: the ALTER runs whether or not the column exists.
NeedsColumn_Always(existing, c) == TRUE

\* if "c" not in existing
NeedsColumn(existing, c) == c \notin existing

AddIfMissing(db, existing, c) ==
    IF NeedsColumn(existing, c) THEN AlterAddColumn(db, c) ELSE db

Coalesce(a, b, c) ==
    IF a # NullText THEN a ELSE IF b # NullText THEN b ELSE c

\* UPDATE work_orders SET updated_at = COALESCE(updated_at, closed_at,
\* created_at) WHERE updated_at IS NULL
Backfill(db) ==
    IF db.exc # "" THEN db
    ELSE [db EXCEPT !.rows =
            [i \in DOMAIN db.rows |->
                IF db.rows[i].updated_at = NullText
                THEN [db.rows[i] EXCEPT !.updated_at =
                        Coalesce(db.rows[i].updated_at, db.rows[i].closed_at,
                                 db.rows[i].created_at)]
                ELSE db.rows[i]]]

MigrateDb(db) ==
    LET existing == db.cols
        d1 == AddIfMissing(db, existing, "assigned_to")
        d2 == AddIfMissing(d1, existing, "notes")
        d3 == AddIfMissing(d2, existing, "updated_at")
    IN  Backfill(d3)

\* init_db on a datastore that has the table: CREATE TABLE IF NOT EXISTS does
\* nothing, then migrate_db runs.
InitDb ==
    LET db == MigrateDb([rows |-> rows, cols |-> cols, exc |-> ""])
    IN  /\ rows' = db.rows
        /\ cols' = db.cols
        /\ last' = [Call("migrate") EXCEPT !.exc = db.exc]
        /\ UNCHANGED <<seq, clock, users, conn, gate, pw>>

\* The rows of an older datastore whose table has the columns cs: the added
\* columns, where the table has them, hold a value or NULL.
OldRows(cs) ==
    {[machine_id |-> "KMT-102", issue |-> "leak", priority |-> "med",
      status |-> st[1], created_at |-> IsoText(0, "Z"), closed_at |-> st[2],
      assigned_to |-> a, notes |-> NoColumn, updated_at |-> u] :
        st \in {<<"open", NullText>>, <<"closed", IsoText(1, "Z")>>},
        a \in IF "assigned_to" \in cs THEN {NULL, "Alex"} ELSE {NoColumn},
        u \in IF "updated_at" \in cs
              THEN {NullText, IsoText(2, "Z")} ELSE {NoColumnText}}

OldRowsOf(cs) ==
    {IF "notes" \in cs THEN [r EXCEPT !.notes = NULL] ELSE r : r \in OldRows(cs)}

InitMigrate ==
    /\ cols \in {AllCols \ S : S \in SUBSET AddedCols}
    /\ rows \in [1..MaxRows -> OldRowsOf(cols)]
    /\ seq = MaxRows
    /\ clock = 2
    /\ last = Call("init")
    /\ AuthIdle /\ GateIdle /\ HashIdle

\* Every statement of close_work_order names columns the migration adds.
NextMigrate ==
    \/ InitDb
    \/ /\ cols = AllCols
       /\ \E id \in IdInputs : CloseWorkOrder(id)
       /\ UNCHANGED otherVars

SpecMigrate == InitMigrate /\ [][NextMigrate]_vars

\* ------------------------------------------------------ password hashing
Passwords == {"pw", "Pw", "other"}

\* os.urandom(16)
Salts == {"s1", "s2"}

DefaultIterations == 200000

\* The outcome of a call that may raise.
Ok(v) == [ok |-> TRUE, v |-> v]
Raised == [ok |-> FALSE, v |-> 0]

\* "%d" % iterations: the decimal digits of the number.
IntText(n) == [n |-> n, form |-> "plain"]

\* int(iters_s): white space around the digits, a sign and underscores between
\* digits are accepted; any other text raises ValueError.
ParseInt(t) == IF t.form = "nonnumeric" THEN Raised ELSE Ok(t.n)

\* base64.b64encode(b).decode("ascii")
B64Encode(b) == [bytes |-> b, form |-> "canonical"]

\* base64.b64decode(text) with validate=False: characters outside the
\* alphabet are discarded and what follows the padding is ignored; a text
\* whose padding is incomplete raises binascii.Error.
B64Decode(t) == IF t.form = "badpad" THEN Raised ELSE Ok(t.bytes)

\* hashlib.pbkdf2_hmac("sha256", password, salt, iterations): a key that
\* differs whenever an argument differs; iterations below 1 raise ValueError.
Pbkdf2(password, salt, iterations) ==
    IF iterations < 1 THEN Raised ELSE Ok(<<password, salt, iterations>>)

\* The text "pbkdf2_sha256$iterations$salt_b64$dk_b64" as its pieces between
\* the "$" characters.
HashPassword(password, salt, iterations) ==
    <<"pbkdf2_sha256", IntText(iterations), B64Encode(salt),
      B64Encode(Pbkdf2(password, salt, iterations).v)>>

\* stored.split("$", 3): at most four parts, the fourth being the rest of the
\* text with its "$" characters. The rest begins with a base64 text.
Split3(stored) ==
    IF Len(stored) <= 4 THEN stored
    ELSE SubSeq(stored, 1, 3) \o <<[stored[4] EXCEPT !.form = "noisy"]>>

\* hmac.compare_digest(dk, expected)
CompareDigest(dk, expected) == dk = expected

\* Every exception is caught and gives False.
VerifyPassword(password, stored) ==
    LET parts == Split3(stored)
    IN  IF Len(parts) # 4 THEN FALSE
        ELSE IF parts[1] # "pbkdf2_sha256" THEN FALSE
        ELSE LET iterations == ParseInt(parts[2])
                 salt == B64Decode(parts[3])
                 expected == B64Decode(parts[4])
             IN  IF ~iterations.ok \/ ~salt.ok \/ ~expected.ok THEN FALSE
                 ELSE LET dk == Pbkdf2(password, salt.v, iterations.v)
                      IN  IF ~dk.ok THEN FALSE
                          ELSE CompareDigest(dk.v, expected.v)

\* The ways an encoded text is corrupted, one at a time.
Corruptions ==
    {"wrong_tag", "missing_field", "extra_field", "empty",
     "nonnumeric_iterations", "spaced_iterations", "zero_iterations",
     "altered_salt", "altered_key", "noisy_key", "truncated_key"}

Corrupt(k, h) ==
    CASE k = "wrong_tag" -> [h EXCEPT ![1] = "md5"]
      [] k = "missing_field" -> SubSeq(h, 1, 3)
      [] k = "extra_field" -> h \o <<"x">>
      [] k = "empty" -> <<"">>
      [] k = "nonnumeric_iterations" -> [h EXCEPT ![2].form = "nonnumeric"]
      [] k = "spaced_iterations" -> [h EXCEPT ![2].form = "spaced"]
      [] k = "zero_iterations" -> [h EXCEPT ![2].n = 0]
      [] k = "altered_salt" -> [h EXCEPT ![3].bytes = "s0"]
      [] k = "altered_key" -> [h EXCEPT ![4].bytes[1] = "altered"]
      [] k = "noisy_key" -> [h EXCEPT ![4].form = "noisy"]
      [] k = "truncated_key" -> [h EXCEPT ![4].form = "badpad"]

Eval(pc, p, salt, stored, corruption, q, result) ==
    [pc |-> pc, p |-> p, salt |-> salt, stored |-> stored,
     corruption |-> corruption, q |-> q, result |-> result]

InitHash ==
    /\ pw \in {Eval("new", p, s, <<>>, "none", None, FALSE) :
                p \in Passwords, s \in Salts}
    /\ rows = [i \in {} |-> 0]
    /\ seq = 0
    /\ clock = 0
    /\ last = Call("init")
    /\ ColsIdle /\ AuthIdle /\ GateIdle

HashStep ==
    /\ pw.pc = "new"
    /\ pw' = [pw EXCEPT !.pc = "hashed",
                        !.stored = HashPassword(pw.p, pw.salt,
                                                DefaultIterations)]

CorruptStep ==
    /\ pw.pc = "hashed"
    /\ pw.corruption = "none"
    /\ \E k \in Corruptions :
        pw' = [pw EXCEPT !.corruption = k, !.stored = Corrupt(k, pw.stored)]

VerifyStep ==
    /\ pw.pc \in {"hashed", "verified"}
    /\ \E q \in Passwords :
        pw' = [pw EXCEPT !.pc = "verified", !.q = q,
                         !.result = VerifyPassword(q, pw.stored)]

NextHash ==
    \/ /\ HashStep
       /\ UNCHANGED <<storeVars, cols, users, conn, gate>>
    \/ /\ CorruptStep
       /\ UNCHANGED <<storeVars, cols, users, conn, gate>>
    \/ /\ VerifyStep
       /\ UNCHANGED <<storeVars, cols, users, conn, gate>>

SpecHash == InitHash /\ [][NextHash]_vars

\* ---------------------------------------------------------------- users
Callers == {"c1", "c2"}

\* The (username, password) pairs that callers pass.
AuthInputs == {<<"admin", "pw">>, <<"admin", "other">>, <<"guest", "pw">>}

\* A connection that is in no call.
AuthConn ==
    [pc |-> "idle", op |-> "none", username |-> None, password |-> None,
     ret |-> FALSE, exc |-> ""]

\* SELECT ... FROM users WHERE username = ?
FindUser(us, username) == {i \in 1..Len(us) : us[i].username = username}

\* ensure_admin_user up to its SELECT: init_auth finds the table, and the
\* call returns if the username is there.
EnsureSelect(c, username, password) ==
    /\ conn[c].pc = "idle"
    /\ conn' = [conn EXCEPT ![c] =
                  [AuthConn EXCEPT !.op = "ensure", !.username = username,
                                   !.password = password,
                                   !.pc = IF FindUser(users, username) # {}
                                          THEN "idle" ELSE "insert"]]
    /\ UNCHANGED users

\* The INSERT of ensure_admin_user and its commit: username is UNIQUE, and
\* the exception of a refused INSERT leaves the call.
EnsureInsert(c) ==
    /\ conn[c].pc = "insert"
    /\ IF FindUser(users, conn[c].username) # {}
       THEN /\ conn' = [conn EXCEPT ![c].pc = "idle",
                                    ![c].exc = "IntegrityError"]
            /\ UNCHANGED users
       ELSE /\ \E salt \in Salts :
                users' = Append(users,
                    [username |-> conn[c].username,
                     password_hash |-> HashPassword(conn[c].password, salt,
                                                    DefaultIterations),
                     created_at |-> utc_now_iso(clock)])
            /\ conn' = [conn EXCEPT ![c].pc = "idle"]

\* Mutant of AuthenticateResult: row["password_hash"] is read without the
\* test for None.
AuthenticateResult_NoneUnchecked(us, username, password) ==
    IF FindUser(us, username) = {}
    THEN [ret |-> FALSE, exc |-> "TypeError"]
    ELSE [ret |-> VerifyPassword(password,
                     us[Min(FindUser(us, username))].password_hash),
          exc |-> ""]

\* authenticate after its SELECT: fetchone() gives None or the first row.
AuthenticateResult(us, username, password) ==
    IF FindUser(us, username) = {}
    THEN [ret |-> FALSE, exc |-> ""]
    ELSE [ret |-> VerifyPassword(password,
                     us[Min(FindUser(us, username))].password_hash),
          exc |-> ""]

Authenticate(c, username, password) ==
    /\ conn[c].pc = "idle"
    /\ LET r == AuthenticateResult(users, username, password)
       IN  conn' = [conn EXCEPT ![c] =
                      [AuthConn EXCEPT !.op = "authenticate",
                                       !.username = username,
                                       !.password = password,
                                       !.ret = r.ret, !.exc = r.exc]]
    /\ UNCHANGED users

InitAuth ==
    /\ users = <<>>
    /\ conn = [c \in Callers |-> AuthConn]
    /\ rows = [i \in {} |-> 0]
    /\ seq = 0
    /\ clock = 0
    /\ last = Call("init")
    /\ ColsIdle /\ GateIdle /\ HashIdle

NextAuth ==
    \/ /\ \E c \in Callers, a \in AuthInputs : EnsureSelect(c, a[1], a[2])
       /\ UNCHANGED <<storeVars, cols, gate, pw>>
    \/ /\ \E c \in Callers : EnsureInsert(c)
       /\ UNCHANGED <<storeVars, cols, gate, pw>>
    \/ /\ \E c \in Callers, a \in AuthInputs : Authenticate(c, a[1], a[2])
       /\ UNCHANGED <<storeVars, cols, gate, pw>>

SpecAuth == InitAuth /\ [][NextAuth]_vars

\* ----------------------------------------------------------- login gate
MaxFailedLogins == 5
LockSeconds == 30

\* The time between two looks at the clock, and the last time looked at.
TickSeconds == 15
MaxNow == 90

\* st.session_state as the page first sets it; streak counts the failed
\* attempts since the last successful one or the last lockout, and evaluated
\* tells whether the last attempt reached authenticate.
InitGate ==
    /\ gate = [authed |-> FALSE, failed_logins |-> 0, lock_until |-> 0,
               now |-> 0, op |-> "init", evaluated |-> FALSE, streak |-> 0]
    /\ rows = [i \in {} |-> 0]
    /\ seq = 0
    /\ clock = 0
    /\ last = Call("init")
    /\ ColsIdle /\ AuthIdle /\ HashIdle

\* login_screen with "Sign in" pressed; ok is what authenticate returns.
LoginAttempt(ok) ==
    /\ ~gate.authed
    /\ IF gate.now < gate.lock_until
       THEN gate' = [gate EXCEPT !.op = "attempt", !.evaluated = FALSE]
       ELSE IF ok
       THEN gate' = [gate EXCEPT !.op = "attempt", !.evaluated = TRUE,
                                 !.authed = TRUE, !.streak = 0]
       ELSE IF gate.failed_logins + 1 >= MaxFailedLogins
       THEN gate' = [gate EXCEPT !.op = "attempt", !.evaluated = TRUE,
                                 !.lock_until = gate.now + LockSeconds,
                                 !.failed_logins = 0, !.streak = 0]
       ELSE gate' = [gate EXCEPT !.op = "attempt", !.evaluated = TRUE,
                                 !.failed_logins = gate.failed_logins + 1,
                                 !.streak = gate.streak + 1]

\* topbar with "Log out" pressed
Logout ==
    /\ gate.authed
    /\ gate' = [gate EXCEPT !.op = "logout", !.authed = FALSE]

GateTick ==
    /\ gate.now + TickSeconds <= MaxNow
    /\ gate' = [gate EXCEPT !.op = "tick", !.now = gate.now + TickSeconds]

NextGate ==
    \/ /\ \E ok \in BOOLEAN : LoginAttempt(ok)
       /\ UNCHANGED <<storeVars, cols, users, conn, pw>>
    \/ /\ Logout
       /\ UNCHANGED <<storeVars, cols, users, conn, pw>>
    \/ /\ GateTick
       /\ UNCHANGED <<storeVars, cols, users, conn, pw>>

SpecGate == InitGate /\ [][NextGate]_vars

\* ------------------------------------------------------ concurrent callers
\* How often the busy handler that sqlite3.connect installs (timeout 5 s)
\* sleeps and tries the lock again before it gives up.
BusyRetries == 2

\* A connection of stress_db.worker that is in no call.
BusyConn ==
    [pc |-> "idle", op |-> "none", id |-> 0, at |-> NullText,
     lock |-> "none", tries |-> 0, waited |-> FALSE, ret |-> 0, exc |-> ""]

\* Another connection holds one of the file locks L.
OthersHold(c, L) == \E d \in (DOMAIN conn) \ {c} : conn[d].lock \in L

\* Mutant of BusyHandler: the handler never gives up.
BusyHandler_Forever(count) == TRUE

\* The busy handler: TRUE to try again, FALSE once the timeout is used up.
BusyHandler(count) == count < BusyRetries

\* The lock is not to be had: the handler tries again, or SQLITE_BUSY reaches
\* the caller as sqlite3.OperationalError ("database is locked"), which
\* stress_db.worker does not catch. held is the lock the connection keeps.
Blocked(c, held) ==
    IF BusyHandler(conn[c].tries)
    THEN conn' = [conn EXCEPT ![c].lock = held, ![c].waited = TRUE,
                              ![c].tries = IF conn[c].tries < BusyRetries
                                           THEN conn[c].tries + 1
                                           ELSE conn[c].tries]
    ELSE conn' = [conn EXCEPT ![c].lock = held, ![c].waited = TRUE,
                              ![c].pc = "stopped",
                              ![c].exc = "OperationalError"]

\* The worker calls add_work_order, list_work_orders or close_work_order,
\* which reads the clock before its statement.
Begin(c, op, id) ==
    /\ conn[c].pc = "idle"
    /\ (op = "add") =>
          seq + Cardinality({d \in DOMAIN conn :
                                /\ conn[d].op = "add"
                                /\ conn[d].pc \in {"stmt", "commit"}})
             < MaxRows
    /\ conn' = [conn EXCEPT ![c] =
                  [BusyConn EXCEPT !.pc = "stmt", !.op = op, !.id = id,
                                   !.at = utc_now_iso(clock)]]
    /\ UNCHANGED <<rows, seq>>

\* conn.execute: a SELECT takes the SHARED lock, which a PENDING lock keeps
\* away; an INSERT or UPDATE takes the RESERVED lock, which one connection
\* has at a time.
Statement(c) ==
    /\ conn[c].pc = "stmt"
    /\ IF conn[c].op = "list"
       THEN IF OthersHold(c, {"pending"})
            THEN Blocked(c, "none")
            ELSE conn' = [conn EXCEPT ![c].pc = "fetch", ![c].lock = "shared",
                                      ![c].tries = 0]
       ELSE IF OthersHold(c, {"reserved", "pending"})
            THEN Blocked(c, "none")
            ELSE conn' = [conn EXCEPT ![c].pc = "commit",
                                      ![c].lock = "reserved", ![c].tries = 0]
    /\ UNCHANGED <<rows, seq>>

\* fetchall(): the rows are read and the SHARED lock is given back.
Fetch(c) ==
    /\ conn[c].pc = "fetch"
    /\ conn' = [conn EXCEPT ![c].pc = "idle", ![c].lock = "none",
                            ![c].ret = Len(OrderByIdDesc(rows, DOMAIN rows))]
    /\ UNCHANGED <<rows, seq>>

\* conn.commit(): the EXCLUSIVE lock needs every SHARED lock gone; until
\* then the writer keeps PENDING.
Commit(c) ==
    /\ conn[c].pc = "commit"
    /\ IF OthersHold(c, {"shared"})
       THEN /\ Blocked(c, "pending")
            /\ UNCHANGED <<rows, seq>>
       ELSE IF conn[c].op = "add"
       THEN /\ rows' = InsertRow(rows, seq,
                          NewRow("KMT-102", "leak", "low", None, None,
                                 conn[c].at))
            /\ seq' = NextRowid(rows, seq)
            /\ conn' = [conn EXCEPT ![c].pc = "idle", ![c].lock = "none",
                                    ![c].tries = 0,
                                    ![c].ret = NextRowid(rows, seq)]
       ELSE /\ rows' = CloseRows(rows, conn[c].id, conn[c].at)
            /\ seq' = seq
            /\ conn' = [conn EXCEPT ![c].pc = "idle", ![c].lock = "none",
                          ![c].tries = 0,
                          ![c].ret = Cardinality(CloseMatches(rows, conn[c].id))]

\* The connection of a worker that stopped is closed with its frame.
CloseConn(c) ==
    /\ conn[c].pc = "stopped"
    /\ conn[c].lock # "none"
    /\ conn' = [conn EXCEPT ![c].lock = "none"]
    /\ UNCHANGED <<rows, seq>>

InitBusy ==
    /\ rows = [i \in {} |-> 0]
    /\ seq = 0
    /\ clock = 0
    /\ last = Call("init")
    /\ users = <<>>
    /\ conn = [c \in Callers |-> BusyConn]
    /\ ColsIdle /\ GateIdle /\ HashIdle

\* What a worker in a call does next.
Continue(c) ==
    /\ Statement(c) \/ Fetch(c) \/ Commit(c)
    /\ UNCHANGED <<clock, last, cols, users, gate, pw>>

NextBusy ==
    \/ /\ \E c \in Callers, op \in {"add", "list", "close"}, id \in 1..MaxRows :
            Begin(c, op, IF op = "close" THEN id ELSE 0)
       /\ UNCHANGED <<clock, last, cols, users, gate, pw>>
    \/ /\ \E c \in Callers : Statement(c)
       /\ UNCHANGED <<clock, last, cols, users, gate, pw>>
    \/ /\ \E c \in Callers : Fetch(c)
       /\ UNCHANGED <<clock, last, cols, users, gate, pw>>
    \/ /\ \E c \in Callers : Commit(c)
       /\ UNCHANGED <<clock, last, cols, users, gate, pw>>
    \/ /\ \E c \in Callers : CloseConn(c)
       /\ UNCHANGED <<clock, last, cols, users, gate, pw>>

\* Each worker is a thread of its own, which the scheduler keeps running.
SpecBusy ==
    /\ InitBusy
    /\ [][NextBusy]_vars
    /\ \A c \in Callers : WF_vars(Continue(c))

\* -------------------------------------------------------- optional fields
\* What update_work_order is passed for (issue, priority, assigned_to,
\* notes): None where the caller passes nothing, as the Save changes handler
\* does for an empty input, and the empty string a direct caller may pass.
OptionalInputs ==
    { <<None, None, None, None>>,
      <<None, None, "Blake", None>>,
      <<None, None, "", None>>,
      <<"jam", None, None, "">> }

\* The work orders that add_work_order has stored, with and without the
\* optional fields.
InitOptional ==
    /\ rows \in [1..MaxRows ->
                  {NewRow(a[1], a[2], a[3], a[4], a[5], utc_now_iso(0)) :
                      a \in {b \in AddInputs : b[3] \in PriorityEnum}}]
    /\ seq = MaxRows
    /\ clock = 0
    /\ last = Call("init")
    /\ OthersIdle

NextOptional ==
    \/ /\ \E id \in IdInputs, u \in OptionalInputs :
            UpdateWorkOrder(id, u[1], u[2], u[3], u[4])
       /\ UNCHANGED otherVars
    \/ /\ \E id \in IdInputs : CloseWorkOrder(id)
       /\ UNCHANGED otherVars

SpecOptional == InitOptional /\ [][NextOptional]_vars

\* ------------------------------------------------------ concurrent closes
\* The callers that close work orders, each on its own connection.
Closers == {"c1", "c2", "c3"}

\* Open work orders, and callers that have called nothing yet.
InitClose ==
    /\ rows = [i \in 1..MaxRows |->
                 NewRow("KMT-102", "leak", "med", None, None, utc_now_iso(0))]
    /\ seq = MaxRows
    /\ clock = 0
    /\ last = Call("init")
    /\ users = <<>>
    /\ conn = [c \in Closers |-> BusyConn]
    /\ ColsIdle /\ GateIdle /\ HashIdle

\* A caller's one call of close_work_order.
CloseBegin(c, id) ==
    /\ conn[c].op = "none"
    /\ Begin(c, "close", id)

CloseTick ==
    /\ clock < MaxTime
    /\ clock' = clock + 1
    /\ UNCHANGED <<rows, seq, conn>>

NextClose ==
    \/ /\ \E c \in Closers, id \in 1..MaxRows : CloseBegin(c, id)
       /\ UNCHANGED <<clock, last, cols, users, gate, pw>>
    \/ /\ \E c \in Closers : Statement(c)
       /\ UNCHANGED <<clock, last, cols, users, gate, pw>>
    \/ /\ \E c \in Closers : Commit(c)
       /\ UNCHANGED <<clock, last, cols, users, gate, pw>>
    \/ /\ CloseTick
       /\ UNCHANGED <<last, cols, users, gate, pw>>

SpecClose == InitClose /\ [][NextClose]_vars

\* ------------------------------------------------------------- atomicity
\* The callers that write, each on a connection it keeps after a call that
\* raised (the sqlite3 module begins a transaction before an INSERT, UPDATE
\* or DELETE and ends it only in commit, rollback or close).
Writers == {"c1", "c2"}

WriterConn ==
    [pc |-> "idle", op |-> "none", id |-> 0, priority |-> None,
     at |-> NullText, lock |-> "none", in_transaction |-> FALSE, tries |-> 0,
     waited |-> FALSE, ret |-> 0, exc |-> ""]

\* The calls: add_work_order and update_work_order with a priority inside
\* and outside the enum, close_work_order, delete_all_work_orders.
WriterInputs ==
    {<<"add", 0, "low">>, <<"add", 0, "urgent">>, <<"delete_all", 0, None>>}
    \cup {<<op[1], id, op[2]>> :
            op \in {<<"update", "high">>, <<"update", "urgent">>,
                    <<"close", None>>},
            id \in 1..MaxRows}

InitAtomic ==
    /\ rows = [i \in {} |-> 0]
    /\ seq = 0
    /\ clock = 0
    /\ last = Call("init")
    /\ users = <<>>
    /\ conn = [c \in Writers |-> WriterConn]
    /\ ColsIdle /\ GateIdle /\ HashIdle

\* The call reads the clock and reaches conn.execute.
WriteBegin(c, op, id, priority) ==
    /\ conn[c].pc = "idle"
    /\ (op = "add") =>
          seq + Cardinality({d \in DOMAIN conn :
                                /\ conn[d].op = "add"
                                /\ conn[d].pc \in {"stmt", "commit"}})
             < MaxRows
    /\ conn' = [conn EXCEPT ![c].pc = "stmt", ![c].op = op, ![c].id = id,
                            ![c].priority = priority,
                            ![c].at = utc_now_iso(clock), ![c].tries = 0,
                            ![c].waited = FALSE, ![c].ret = 0, ![c].exc = ""]
    /\ UNCHANGED <<rows, seq>>

\* The row the INSERT of the call writes.
WriterRow(w) == NewRow("KMT-102", "leak", w.priority, None, None, w.at)

\* The statement of the call writes a row that a constraint refuses.
WriteViolates(w) ==
    CASE w.op = "add" -> ~CheckOk(WriterRow(w))
      [] w.op = "update" ->
            UpdateViolates(rows, w.id, None, w.priority, None, None, w.at)
      [] OTHER -> FALSE

\* conn.execute: the transaction begins, the statement takes the RESERVED
\* lock or finds it taken, and then runs. A statement that a constraint
\* refuses is undone and raises; the transaction it began stays open.
WriteStatement(c) ==
    /\ conn[c].pc = "stmt"
    /\ IF OthersHold(c, {"reserved", "pending"})
       THEN Blocked(c, conn[c].lock)
       ELSE IF WriteViolates(conn[c])
       THEN conn' = [conn EXCEPT ![c].pc = "idle", ![c].lock = "reserved",
                                 ![c].in_transaction = TRUE,
                                 ![c].tries = 0,
                                 ![c].exc = "IntegrityError"]
       ELSE conn' = [conn EXCEPT ![c].pc = "commit", ![c].lock = "reserved",
                                 ![c].in_transaction = TRUE,
                                 ![c].tries = 0]
    /\ UNCHANGED <<rows, seq>>

\* The table once the statement of the call is committed, and its rowcount
\* (the new id for add_work_order).
WriteEffect(w) ==
    CASE w.op = "add" -> InsertRow(rows, seq, WriterRow(w))
      [] w.op = "update" ->
            UpdateRows(rows, w.id, None, w.priority, None, None, w.at)
      [] w.op = "close" -> CloseRows(rows, w.id, w.at)
      [] w.op = "delete_all" -> Without(rows, DOMAIN rows)

WriteReturn(w) ==
    CASE w.op = "add" -> NextRowid(rows, seq)
      [] w.op = "update" -> Cardinality(UpdateMatches(rows, w.id))
      [] w.op = "close" -> Cardinality(CloseMatches(rows, w.id))
      [] w.op = "delete_all" -> Cardinality(DOMAIN rows)

\* conn.commit() and the return; no connection of this specification reads,
\* so the EXCLUSIVE lock is to be had.
WriteCommit(c) ==
    /\ conn[c].pc = "commit"
    /\ rows' = WriteEffect(conn[c])
    /\ seq' = IF conn[c].op = "add" THEN NextRowid(rows, seq) ELSE seq
    /\ conn' = [conn EXCEPT ![c].pc = "idle", ![c].lock = "none",
                            ![c].in_transaction = FALSE,
                            ![c].ret = WriteReturn(conn[c])]

\* The caller drops its connection, which rolls back what it has open, and
\* opens another.
Reconnect(c) ==
    /\ conn[c].pc \in {"idle", "stopped"}
    /\ conn[c].in_transaction \/ conn[c].pc = "stopped"
    /\ conn' = [conn EXCEPT ![c].pc = "idle", ![c].lock = "none",
                            ![c].in_transaction = FALSE]
    /\ UNCHANGED <<rows, seq>>

NextAtomic ==
    \/ /\ \E c \in Writers, w \in WriterInputs : WriteBegin(c, w[1], w[2], w[3])
       /\ UNCHANGED <<clock, last, cols, users, gate, pw>>
    \/ /\ \E c \in Writers : WriteStatement(c)
       /\ UNCHANGED <<clock, last, cols, users, gate, pw>>
    \/ /\ \E c \in Writers : WriteCommit(c)
       /\ UNCHANGED <<clock, last, cols, users, gate, pw>>
    \/ /\ \E c \in Writers : Reconnect(c)
       /\ UNCHANGED <<clock, last, cols, users, gate, pw>>

SpecAtomic == InitAtomic /\ [][NextAtomic]_vars

\* ===================================================================== claims
\* The row with id i is stored in rs.
Stored(rs, i) == i \in DOMAIN rs

\* C1: every stored work order has closed_at present if and only if its
\* status is closed.
C1_ClosedAtIffClosed ==
    \A i \in DOMAIN rows :
        (rows[i].closed_at # NullText) <=> (rows[i].status = "closed")

\* A close succeeded and left a closed row next to an open one.
C1_Witness ==
    /\ last.op = "close"
    /\ last.ret = 1
    /\ \E i, j \in DOMAIN rows :
          /\ rows[i].status = "closed" /\ rows[i].closed_at # NullText
          /\ rows[j].status = "open" /\ rows[j].closed_at = NullText

\* C2: close(id) on an open work order returns 1 and sets status=closed and
\* closed_at=updated_at=now, changing nothing else; on a closed work order it
\* returns 0 and leaves every row unchanged; on an id that is not stored it
\* returns 0 and changes no row.
C2_CloseStep ==
    last'.op = "close" =>
        LET id == last'.id
            now == utc_now_iso(clock)
        IN  /\ last'.exc = ""
            /\ (Stored(rows, id) /\ rows[id].status = "open") =>
                  /\ last'.ret = 1
                  /\ rows' = [rows EXCEPT ![id] =
                                [@ EXCEPT !.status = "closed",
                                          !.closed_at = now,
                                          !.updated_at = now]]
            /\ (Stored(rows, id) /\ rows[id].status = "closed") =>
                  /\ last'.ret = 0
                  /\ rows' = rows
            /\ ~Stored(rows, id) =>
                  /\ last'.ret = 0
                  /\ rows' = rows

C2_Close == [][C2_CloseStep]_vars

\* A close of an already closed work order returned 0 at a later time than
\* the time it was closed at.
C2_Witness ==
    /\ last.op = "close"
    /\ last.ret = 0
    /\ Stored(rows, last.id)
    /\ rows[last.id].status = "closed"
    /\ rows[last.id].closed_at.t < clock

\* C3: once a work order is closed, no call makes it open again or changes
\* its closed_at for as long as the row is stored.
C3_ClosedStep ==
    \A i \in DOMAIN rows :
        (rows[i].status = "closed" /\ Stored(rows', i)) =>
            /\ rows'[i].status = "closed"
            /\ rows'[i].closed_at = rows[i].closed_at

C3_ClosedIsTerminal == [][C3_ClosedStep]_vars

\* A closed work order was edited by a successful update after the time it
\* was closed at.
C3_Witness ==
    /\ last.op = "update"
    /\ last.ret = 1
    /\ rows[last.id].status = "closed"
    /\ rows[last.id].closed_at.t < rows[last.id].updated_at.t

\* C4: a successful create inserts exactly one row, which getById(returned
\* id) yields with status=open, closed_at absent, updated_at = created_at,
\* the given machine_id, issue and priority, and assigned_to and notes absent
\* unless given; no other row is changed.
C4_CreateStep ==
    (last'.op = "add" /\ last'.exc = "") =>
        LET id == last'.ret
            got == SelectById(rows', id)
        IN  /\ ~Stored(rows, id)
            /\ DOMAIN rows' = DOMAIN rows \cup {id}
            /\ \A i \in DOMAIN rows : rows'[i] = rows[i]
            /\ Len(got) = 1
            /\ got[1].id = id
            /\ got[1].status = "open"
            /\ got[1].closed_at = NullText
            /\ got[1].created_at = utc_now_iso(clock)
            /\ got[1].updated_at = got[1].created_at
            /\ got[1].machine_id = last'.machine_id
            /\ got[1].issue = last'.issue
            /\ got[1].priority = last'.priority
            /\ got[1].assigned_to =
                  (IF last'.assigned_to = None THEN NULL
                   ELSE last'.assigned_to)
            /\ got[1].notes =
                  (IF last'.notes = None THEN NULL ELSE last'.notes)

C4_Create == [][C4_CreateStep]_vars

\* A second work order was created without assigned_to and notes while
\* another row was stored.
C4_Witness ==
    /\ last.op = "add"
    /\ last.exc = ""
    /\ last.ret = 2
    /\ last.assigned_to = None
    /\ Cardinality(DOMAIN rows) = 2
    /\ rows[2].assigned_to = NULL
    /\ rows[2].notes = NULL

\* C5: create with a priority outside {low, med, high} fails with the
\* storage layer's constraint violation and the stored work orders are the
\* same after the call as before it.
C5_BadPriorityStep ==
    (last'.op = "add" /\ last'.priority \notin PriorityEnum) =>
        /\ last'.exc = "IntegrityError"
        /\ rows' = rows

C5_CreateBadPriority == [][C5_BadPriorityStep]_vars

\* A create with priority "urgent" failed while a row was stored.
C5_Witness ==
    /\ last.op = "add"
    /\ last.priority = "urgent"
    /\ last.exc = "IntegrityError"
    /\ rows # <<>>

\* The instant a stored time string denotes.
Instant(x) == x.t

\* C6: update returns 0 and changes nothing when no field is supplied, and
\* when the id is not stored; an update that supplies a field for a stored
\* id and returns, returns 1 and sets updated_at to now, which is not before
\* the previous updated_at, whether or not a value differs.
C6_UpdateStep ==
    last'.op = "update" =>
        LET id == last'.id
            none == NoFields(last'.issue, last'.priority, last'.assigned_to,
                             last'.notes)
        IN  /\ none => (last'.ret = 0 /\ last'.exc = "" /\ rows' = rows)
            /\ ~Stored(rows, id) =>
                  (last'.ret = 0 /\ last'.exc = "" /\ rows' = rows)
            /\ (~none /\ Stored(rows, id) /\ last'.exc = "") =>
                  /\ last'.ret = 1
                  /\ rows'[id].updated_at = utc_now_iso(clock)
                  /\ Instant(rows'[id].updated_at) >=
                        Instant(rows[id].updated_at)

C6_Update == [][C6_UpdateStep]_vars

\* An update that supplied the values the row already had returned 1 and
\* moved updated_at past created_at.
C6_Witness ==
    /\ last.op = "update"
    /\ last.ret = 1
    /\ last.issue = "leak"
    /\ last.priority = "med"
    /\ rows[last.id].machine_id = "KMT-102"
    /\ rows[last.id].assigned_to = NULL
    /\ rows[last.id].status = "open"
    /\ Instant(rows[last.id].updated_at) > Instant(rows[last.id].created_at)

\* A priority that was passed and is outside the enum.
BadPriority(p) == p # None /\ p \notin PriorityEnum

\* C7 as stated: every update with a priority outside {low, med, high} fails
\* with a constraint violation and changes no row.
C7_OriginalStep ==
    (last'.op = "update" /\ BadPriority(last'.priority)) =>
        /\ last'.exc = "IntegrityError"
        /\ rows' = rows

C7_Original == [][C7_OriginalStep]_vars

\* C7 as amended: an update with a priority outside {low, med, high} changes
\* no row; on a stored id it fails with a constraint violation, on an id that
\* is not stored it returns 0 without an error.
C7_AmendedStep ==
    (last'.op = "update" /\ BadPriority(last'.priority)) =>
        /\ rows' = rows
        /\ Stored(rows, last'.id) => last'.exc = "IntegrityError"
        /\ ~Stored(rows, last'.id) => (last'.exc = "" /\ last'.ret = 0)

C7_Amended == [][C7_AmendedStep]_vars

\* An update with priority "urgent" and notes failed on a stored row whose
\* notes are still absent.
C7_Witness ==
    /\ last.op = "update"
    /\ last.priority = "urgent"
    /\ last.notes = "n1"
    /\ last.exc = "IntegrityError"
    /\ Stored(rows, last.id)
    /\ rows[last.id].notes = NULL

\* C8: a successful update changes, of the row with that id, only the
\* supplied fields among issue, priority, assigned_to and notes, and
\* updated_at; the row's machine_id, status, created_at and closed_at, the
\* set of stored ids and every other row are unchanged.
C8_FrameStep ==
    (last'.op = "update" /\ last'.exc = "" /\ last'.ret = 1) =>
        LET id == last'.id
        IN  /\ Stored(rows, id)
            /\ DOMAIN rows' = DOMAIN rows
            /\ \A i \in DOMAIN rows : i # id => rows'[i] = rows[i]
            /\ rows'[id].machine_id = rows[id].machine_id
            /\ rows'[id].status = rows[id].status
            /\ rows'[id].created_at = rows[id].created_at
            /\ rows'[id].closed_at = rows[id].closed_at
            /\ rows'[id].issue =
                  (IF last'.issue = None THEN rows[id].issue ELSE last'.issue)
            /\ rows'[id].priority =
                  (IF last'.priority = None THEN rows[id].priority
                   ELSE last'.priority)
            /\ rows'[id].assigned_to =
                  (IF last'.assigned_to = None THEN rows[id].assigned_to
                   ELSE last'.assigned_to)
            /\ rows'[id].notes =
                  (IF last'.notes = None THEN rows[id].notes
                   ELSE last'.notes)

C8_UpdateFrame == [][C8_FrameStep]_vars

\* An update of the issue alone succeeded on a row that has an assignee and
\* notes, while another row was stored.
C8_Witness ==
    /\ last.op = "update"
    /\ last.ret = 1
    /\ last.issue = "jam"
    /\ last.assigned_to = None
    /\ rows[last.id].assigned_to = "Alex"
    /\ rows[last.id].notes = "n1"
    /\ Cardinality(DOMAIN rows) = 2

\* C9: list(status) and listByMachine(machine_id, status) return exactly the
\* stored rows that match every given filter, each once, in strictly
\* descending order of id, and do not modify the store.
C9_ListStep ==
    last'.op \in {"list", "list_by_machine"} =>
        LET out == last'.out
            want == {i \in DOMAIN rows :
                       /\ last'.status # None =>
                             rows[i].status = last'.status
                       /\ last'.op = "list_by_machine" =>
                             rows[i].machine_id = last'.machine_id}
        IN  /\ rows' = rows
            /\ seq' = seq
            /\ Len(out) = Cardinality(want)
            /\ {out[k].id : k \in 1..Len(out)} = want
            /\ \A k \in 1..Len(out) : out[k] = RowOf(rows, out[k].id)
            /\ \A k \in 1..(Len(out) - 1) : out[k].id > out[k + 1].id

C9_List == [][C9_ListStep]_vars

\* A listing of one machine's open work orders returned two rows.
C9_Witness ==
    /\ last.op = "list_by_machine"
    /\ last.status = "open"
    /\ Len(last.out) = 2
    /\ last.out[1].id = 2
    /\ last.out[2].id = 1

\* C10: deleteClosedOlderThan(days) deletes exactly the rows with
\* status=closed whose closed_at is a timestamp strictly older than now minus
\* days, and returns their count; open rows, closed rows within the window
\* and closed rows whose closed_at is absent or no timestamp stay as they are.
C10_RetentionStep ==
    last'.op = "delete_old" =>
        LET old == {i \in DOMAIN rows :
                      /\ rows[i].status = "closed"
                      /\ rows[i].closed_at.kind = "iso"
                      /\ Instant(rows[i].closed_at) < clock - last'.days}
        IN  /\ rows' = Without(rows, old)
            /\ last'.ret = Cardinality(old)
            /\ last'.exc = ""

C10_Retention == [][C10_RetentionStep]_vars

\* A retention delete with days >= 1 removed a row and left a closed row
\* whose closed_at is no timestamp.
C10_Witness ==
    /\ last.op = "delete_old"
    /\ last.days >= 1
    /\ last.ret = 1
    /\ \E i \in DOMAIN rows :
          rows[i].status = "closed" /\ rows[i].closed_at = JunkText

\* C11: deleteByMachine(m) removes exactly the rows whose machine_id is m,
\* returns their number and leaves the rows of other machines unchanged;
\* deleteAll() removes every row and returns the number of rows stored before.
C11_DeleteStep ==
    /\ last'.op = "delete_by_machine" =>
          LET gone == {i \in DOMAIN rows :
                         rows[i].machine_id = last'.machine_id}
          IN  /\ DOMAIN rows' = DOMAIN rows \ gone
              /\ \A i \in DOMAIN rows' : rows'[i] = rows[i]
              /\ last'.ret = Cardinality(gone)
              /\ last'.exc = ""
    /\ last'.op = "delete_all" =>
          /\ DOMAIN rows' = {}
          /\ last'.ret = Cardinality(DOMAIN rows)
          /\ last'.exc = ""

C11_Delete == [][C11_DeleteStep]_vars

\* A delete by machine removed one row and left the row of the other machine.
C11_Witness ==
    /\ last.op = "delete_by_machine"
    /\ last.machine_id = "KMT-102"
    /\ last.ret = 1
    /\ \E i \in DOMAIN rows : rows[i].machine_id = "KMT-200"

\* C12: every successful create returns an id greater than every id returned
\* before, deleted rows included.  seq is the largest id returned so far: it
\* changes only in a successful create, which sets it to the returned id.
C12_IdStep ==
    /\ \A i \in DOMAIN rows : i <= seq
    /\ IF last'.op = "add" /\ last'.exc = ""
       THEN /\ last'.ret > seq
            /\ seq' = last'.ret
            /\ last'.ret \notin DOMAIN rows
            /\ last'.ret \in DOMAIN rows'
       ELSE seq' = seq

C12_MonotonicIds == [][C12_IdStep]_vars

\* A create after the deletion of every row returned a new id.
C12_Witness ==
    /\ last.op = "add"
    /\ last.exc = ""
    /\ last.ret = 2
    /\ DOMAIN rows = {2}

\* C20: every stored work order has updated_at >= created_at, and every
\* closed one has updated_at >= closed_at >= created_at.
C20_TimestampOrder ==
    \A i \in DOMAIN rows :
        /\ Instant(rows[i].updated_at) >= Instant(rows[i].created_at)
        /\ rows[i].status = "closed" =>
              /\ rows[i].closed_at.kind = "iso"
              /\ Instant(rows[i].updated_at) >= Instant(rows[i].closed_at)
              /\ Instant(rows[i].closed_at) >= Instant(rows[i].created_at)

\* A work order created at one time was closed at a later time.
C20_Witness ==
    \E i \in DOMAIN rows :
        /\ rows[i].status = "closed"
        /\ Instant(rows[i].closed_at) > Instant(rows[i].created_at)
        /\ Instant(rows[i].updated_at) = Instant(rows[i].closed_at)

\* C13: the outcome of create does not depend on the notifier: whether the
\* notifier is missing, fails to load, skips, sends or fails to send, a create
\* with valid arguments stores the row and returns its id without raising.
C13_NotifyStep ==
    (last'.op = "add" /\ last'.priority \in PriorityEnum) =>
        /\ last'.exc = ""
        /\ last'.ret \notin DOMAIN rows
        /\ last'.ret \in DOMAIN rows'

C13_NotifyAbsorbed == [][C13_NotifyStep]_vars
\* C19: opening the store adds the columns assigned_to, notes and updated_at
\* that the table lacks, leaves every other value of every row as it was,
\* sets updated_at of each row lacking it to closed_at if present, else to
\* created_at, never raises, and changes nothing on an up-to-date datastore.
C19_MigrateStep ==
    (last'.op = "migrate") =>
        /\ last'.exc = ""
        /\ cols' = cols \cup AddedCols
        /\ DOMAIN rows' = DOMAIN rows
        /\ \A i \in DOMAIN rows :
            LET r == rows[i]
                n == rows'[i]
                lacks == \/ "updated_at" \notin cols
                         \/ r.updated_at = NullText
            IN  /\ n.machine_id = r.machine_id
                /\ n.issue = r.issue
                /\ n.priority = r.priority
                /\ n.status = r.status
                /\ n.created_at = r.created_at
                /\ n.closed_at = r.closed_at
                /\ n.assigned_to =
                     IF "assigned_to" \in cols THEN r.assigned_to ELSE NULL
                /\ n.notes = IF "notes" \in cols THEN r.notes ELSE NULL
                /\ n.updated_at =
                     IF lacks
                     THEN IF r.closed_at # NullText
                          THEN r.closed_at ELSE r.created_at
                     ELSE r.updated_at
        /\ (cols = AllCols /\ \A i \in DOMAIN rows : rows[i].updated_at # NullText)
              => (rows' = rows /\ cols' = cols)

C19_Migrate == [][C19_MigrateStep]_vars

\* The migration ran after a close on the migrated table, and one closed row
\* has its updated_at backfilled from closed_at.
C19_Witness ==
    /\ last.op = "migrate"
    /\ cols = AllCols
    /\ \E i, j \in DOMAIN rows :
        /\ rows[i].closed_at = IsoText(1, "Z")
        /\ rows[i].updated_at = rows[i].closed_at
        /\ rows[j].closed_at = IsoText(2, "Z")

\* C18: verifying p against the hash of p gives true, verifying any other q
\* against it gives false, and verifying against a corrupted or malformed
\* encoded text (wrong tag, wrong number of fields, non-numeric iterations,
\* altered salt or key) gives false; no verification raises.
C18_VerifyStep ==
    (pw'.pc = "verified") =>
        /\ pw'.result \in BOOLEAN
        /\ (pw.corruption = "none") => (pw'.result = (pw'.q = pw.p))
        /\ (pw.corruption # "none") => (pw'.result = FALSE)

C18_HashRoundTrip == [][C18_VerifyStep]_vars

\* C14: ensure on a username that exists changes nothing, and when two
\* callers run ensure for the same absent username, both checking before
\* either inserts, one row with that username results and neither call ends
\* in an error.
C14_EnsureStep ==
    \A c \in Callers :
        (conn'[c] # conn[c] /\ conn'[c].op = "ensure") =>
            /\ conn'[c].exc = ""
            /\ (FindUser(users, conn'[c].username) # {}) => (users' = users)
            /\ (conn'[c].pc = "idle") =>
                  (Cardinality(FindUser(users', conn'[c].username)) = 1)

C14_EnsureRaceSafe == [][C14_EnsureStep]_vars

\* C17: authenticate returns true exactly when a row with the username
\* exists and the password verifies against its stored hash; for an unknown
\* username and for a wrong password it returns false without an exception;
\* it never changes the rows of users.
C17_AuthenticateStep ==
    \A c \in Callers :
        (conn'[c] # conn[c] /\ conn'[c].op = "authenticate") =>
            /\ users' = users
            /\ conn'[c].exc = ""
            /\ conn'[c].ret =
                 \E i \in 1..Len(users) :
                    /\ users[i].username = conn'[c].username
                    /\ VerifyPassword(conn'[c].password,
                                      users[i].password_hash)

C17_Authenticate == [][C17_AuthenticateStep]_vars

\* One caller was authenticated, one was refused for a wrong password, and
\* the other username is unknown.
C17_Witness ==
    /\ conn["c1"].op = "authenticate" /\ conn["c1"].ret
    /\ conn["c2"].op = "authenticate" /\ ~conn["c2"].ret
    /\ conn["c2"].username = conn["c1"].username
    /\ Len(users) = 1

\* C16: a lockout starts exactly on the fifth consecutive failed attempt (a
\* successful login restarts the count) and lasts 30 seconds; an attempt
\* during the lockout is not evaluated, and one after it is.
C16_AttemptStep ==
    (gate'.op = "attempt" /\ gate' # gate) =>
        /\ gate'.evaluated <=> (gate.now >= gate.lock_until)
        /\ (gate'.lock_until # gate.lock_until) <=>
              /\ gate'.evaluated
              /\ ~gate'.authed
              /\ gate.streak + 1 = MaxFailedLogins
        /\ (gate'.lock_until # gate.lock_until) =>
              (gate'.lock_until = gate.now + LockSeconds)

C16_Lockout == [][C16_AttemptStep]_vars

\* C15: an operation that finds the database locked by another caller tries
\* again at most BusyRetries times and then has the lock or ends in an error
\* that reaches its caller; every operation that callers interleaving
\* create, list and close have begun comes to an end.
C15_RetryStep ==
    \A c \in Callers :
        /\ conn'[c].tries <= BusyRetries
        /\ (conn[c].tries = BusyRetries /\ conn'[c] # conn[c]) =>
              \/ conn'[c].pc \in {"fetch", "commit", "idle"} /\ conn'[c].exc = ""
              \/ conn'[c].pc = "stopped" /\ conn'[c].exc = "OperationalError"

C15_BoundedBusy ==
    /\ [][C15_RetryStep]_vars
    /\ \A c \in Callers :
          (conn[c].pc \in {"stmt", "fetch", "commit"})
             ~> (conn[c].pc \in {"idle", "stopped"})

\* One caller waited for the lock and then committed its create; the other
\* used up its retries and its call ended in the error.
C15_Witness ==
    \E c, d \in Callers :
        /\ conn[c].op = "add" /\ conn[c].pc = "idle"
        /\ conn[c].waited /\ conn[c].exc = "" /\ conn[c].ret \in DOMAIN rows
        /\ conn[d].pc = "stopped" /\ conn[d].exc = "OperationalError"
        /\ conn[d].tries = BusyRetries

\* C23: no update and no close makes an assigned_to or notes that is present
\* (not NULL) absent again; an update replaces it only by a value it was
\* passed.
C23_KeepStep ==
    \A i \in DOMAIN rows :
        /\ i \in DOMAIN rows'
        /\ (rows[i].assigned_to # NULL) =>
              /\ rows'[i].assigned_to # NULL
              /\ rows'[i].assigned_to \in {rows[i].assigned_to, last'.assigned_to}
        /\ (rows[i].notes # NULL) =>
              /\ rows'[i].notes # NULL
              /\ rows'[i].notes \in {rows[i].notes, last'.notes}

C23_OptionalKept == [][C23_KeepStep]_vars

\* An update passed the empty string for assigned_to on a row that had a
\* name and notes: the row holds the empty string, and the notes it had.
C23_Witness ==
    /\ last.op = "update"
    /\ last.ret = 1
    /\ last.assigned_to = ""
    /\ last.notes = None
    /\ rows[last.id].assigned_to = ""
    /\ rows[last.id].notes = "n1"

\* The calls of close on work order i that have ended, those of them that
\* returned n, and the calls on i still running.
Ended(i) ==
    {c \in DOMAIN conn : /\ conn[c].op = "close" /\ conn[c].id = i
                         /\ conn[c].pc \in {"idle", "stopped"}}
Returned(i, n) == {c \in Ended(i) : conn[c].exc = "" /\ conn[c].ret = n}
Running(i) ==
    {c \in DOMAIN conn : /\ conn[c].op = "close" /\ conn[c].id = i
                         /\ conn[c].pc \in {"stmt", "commit"}}

\* C22 as stated: of the concurrent calls of close on one open work order,
\* exactly one returns 1 and every other returns 0, and closed_at is the
\* time of the call that returned 1.
C22_Original ==
    \A i \in DOMAIN rows :
        /\ Cardinality(Returned(i, 1)) <= 1
        /\ Ended(i) \subseteq Returned(i, 0) \cup Returned(i, 1)
        /\ (Ended(i) # {} /\ Running(i) = {}) =>
              (Cardinality(Returned(i, 1)) = 1)
        /\ \A c \in Returned(i, 1) : rows[i].closed_at = conn[c].at

\* C22 amended: at most one call returns 1 and it is the one whose time
\* closed_at holds; every other call returns 0, or ends in the error of a
\* database that stayed locked, and changes nothing; a call returns 0 only
\* after another has returned 1, and the row is closed exactly when a call
\* has returned 1.
C22_Amended ==
    \A i \in DOMAIN rows :
        /\ Cardinality(Returned(i, 1)) <= 1
        /\ \A c \in Ended(i) :
              \/ c \in Returned(i, 0) \cup Returned(i, 1)
              \/ conn[c].pc = "stopped" /\ conn[c].exc = "OperationalError"
        /\ (Returned(i, 0) # {}) => (Returned(i, 1) # {})
        /\ (rows[i].status = "closed") <=> (Returned(i, 1) # {})
        /\ \A c \in Returned(i, 1) :
              /\ rows[i].closed_at = conn[c].at
              /\ rows[i].status = "closed"
        /\ (Returned(i, 1) = {}) => (rows[i].closed_at = NullText)

\* Three callers closed the same work order: the one that called last
\* returned 1 and its time is the row's closed_at, one returned 0, and one
\* gave up on the locked database.
C22_Witness ==
    \E i \in DOMAIN rows, c, d, e \in DOMAIN conn :
        /\ c \in Returned(i, 1)
        /\ d \in Returned(i, 0)
        /\ e \in Ended(i) /\ conn[e].exc = "OperationalError"
        /\ conn[c].at # conn[d].at
        /\ rows[i].closed_at = conn[c].at

\* C21: a call of create, update, close or delete that returns has its
\* effect committed, in the table every connection reads, and a call of
\* create or update that raises a constraint violation leaves its connection
\* with no open transaction and no write lock; no call leaves anything
\* pending.
C21_ReturnStep ==
    \A c \in DOMAIN conn :
        (conn[c].pc \in {"stmt", "commit"} /\ conn'[c].pc = "idle") =>
            /\ conn'[c].lock = "none"
            /\ ~conn'[c].in_transaction
            /\ (conn'[c].exc = "") => (rows' = WriteEffect(conn[c]))
            /\ (conn'[c].exc # "") =>
                  (conn'[c].exc = "IntegrityError" /\ rows' = rows)

C21_Atomic == [][C21_ReturnStep]_vars

====
